---------------------------- MODULE Spec2Model ----------------------------
(***************************************************************************)
(* A model of the rule-driven chatbot of src/main.rs: the interactive loop *)
(* of main (exit / reload rules / list intents / one conversational turn), *)
(* the rule file it loads and reloads, the session, and the three pure     *)
(* functions clean_input, match_rule and generate_response.                *)
(*                                                                         *)
(* A Rust String is modelled as a sequence of one-character strings, so    *)
(* that lowercasing, trimming, substring search and replacement are        *)
(* computed character by character as the standard library computes them.  *)
(* The characters are ASCII.  A Vec is a sequence; Rust's index 0 is       *)
(* index 1 here.                                                           *)
(***************************************************************************)
EXTENDS Naturals, Sequences, FiniteSets

(***************************************************************************)
(* Bounds of the model.                                                    *)
(***************************************************************************)
\* longest raw input drawn for clean_input and match_rule
MaxLen == 3
\* longest rule collection drawn for match_rule
MaxRules == 2
\* most fragments a response template is put together from
MaxFragments == 3

(***************************************************************************)
(* Strings: str::to_lowercase, str::trim, str::eq_ignore_ascii_case,       *)
(* str::contains and str::replace.                                         *)
(***************************************************************************)
UpperCase == 
    <<"A","B","C","D","E","F","G","H","I","J","K","L","M","N","O","P","Q","R","S",
      "T","U","V","W","X","Y","Z">>

LowerCase == 
    <<"a","b","c","d","e","f","g","h","i","j","k","l","m","n","o","p","q","r","s",
      "t","u","v","w","x","y","z">>

\* char::is_whitespace on the characters of the model
WhiteSpace == {" ", "\t", "\n", "\r"}

\* the lowercase form of each uppercase letter
LowerOf ==
    [c \in {UpperCase[i] : i \in 1..Len(UpperCase)} |->
        LowerCase[CHOOSE i \in 1..Len(UpperCase) : UpperCase[i] = c]]

is_uppercase(c) == c \in DOMAIN LowerOf

to_lowercase_char(c) == IF is_uppercase(c) THEN LowerOf[c] ELSE c

\* str::to_lowercase: every character replaced by its lowercase form
to_lowercase(s) == [i \in 1..Len(s) |-> to_lowercase_char(s[i])]

\* the least element of a non-empty set of numbers
Min(S) == CHOOSE x \in S : \A y \in S : x <= y

\* how many whitespace characters s starts with
LeadingWhite(s) ==
    Cardinality({i \in 1..Len(s) : \A j \in 1..i : s[j] \in WhiteSpace})

\* how many whitespace characters s ends with
TrailingWhite(s) ==
    Cardinality({i \in 1..Len(s) : \A j \in i..Len(s) : s[j] \in WhiteSpace})

\* str::trim_start: the text from the first non-whitespace character on
trim_start(s) == SubSeq(s, LeadingWhite(s) + 1, Len(s))

\* str::trim_end: the text up to the last non-whitespace character
trim_end(s) == SubSeq(s, 1, Len(s) - TrailingWhite(s))

\* a faulty trim, which removes one whitespace character at most from each
\* end: what C6 is shown to detect
trim_once(s) ==
    LET a == IF s # <<>> /\ s[1] \in WhiteSpace THEN 2 ELSE 1
        b == IF Len(s) >= a /\ s[Len(s)] \in WhiteSpace THEN Len(s) - 1 ELSE Len(s)
    IN  SubSeq(s, a, b)

\* str::trim: leading and trailing whitespace removed
trim(s) == trim_end(trim_start(s))

\* str::eq_ignore_ascii_case
eq_ignore_ascii_case(a, b) == to_lowercase(a) = to_lowercase(b)

\* the positions of s at which p stands
Occurrences(s, p) ==
    {i \in 1..(Len(s) - Len(p) + 1) : SubSeq(s, i, i + Len(p) - 1) = p}

\* a faulty contains, which looks for p at the start of s only: what C4 is
\* shown to detect
contains_at_start(s, p) == 1 \in Occurrences(s, p)

\* str::contains
contains(s, p) == Occurrences(s, p) # {}

\* str::replace: the text before the first match of from, then to, then the
\* rest of s replaced in the same way (from is not empty)
RECURSIVE replace(_, _, _)
replace(s, from, to) ==
    LET occ == Occurrences(s, from)
    IN  IF occ = {} THEN s
        ELSE LET i == Min(occ)
             IN  SubSeq(s, 1, i - 1) \o to
                   \o replace(SubSeq(s, i + Len(from), Len(s)), from, to)

\* the strings of at most n characters of the alphabet
Strings(alphabet, n) == UNION {[1..k -> alphabet] : k \in 0..n}

\* the sequences of at most n elements of S
SeqUpTo(S, n) == UNION {[1..k -> S] : k \in 0..n}

RECURSIVE Concat(_)
Concat(ss) == IF ss = <<>> THEN <<>> ELSE Head(ss) \o Concat(Tail(ss))

(***************************************************************************)
(* String literals of the program.                                         *)
(***************************************************************************)
\* "exit"
ExitCommand == <<"e","x","i","t">>

\* "reload rules"
ReloadCommand == <<"r","e","l","o","a","d"," ","r","u","l","e","s">>

\* "list intents"
ListCommand == <<"l","i","s","t"," ","i","n","t","e","n","t","s">>

\* "{name}"
NamePlaceholder == <<"{","n","a","m","e","}">>

\* "{time}"
TimePlaceholder == <<"{","t","i","m","e","}">>

\* "I'm sorry, I didn't understand that. Could you please rephrase?"
FallbackMessage == 
    <<"I","'","m"," ","s","o","r","r","y",","," ","I"," ","d","i","d","n","'","t",
      " ","u","n","d","e","r","s","t","a","n","d"," ","t","h","a","t","."," ","C",
      "o","u","l","d"," ","y","o","u"," ","p","l","e","a","s","e"," ","r","e","p",
      "h","r","a","s","e","?">>

\* "Chatbot: "
ChatbotPrefix == <<"C","h","a","t","b","o","t",":"," ">>

\* "Chatbot: Goodbye!"
GoodbyeLine == <<"C","h","a","t","b","o","t",":"," ","G","o","o","d","b","y","e","!">>

\* "Chatbot: Rules reloaded successfully."
ReloadedLine == 
    <<"C","h","a","t","b","o","t",":"," ","R","u","l","e","s"," ","r","e","l","o",
      "a","d","e","d"," ","s","u","c","c","e","s","s","f","u","l","l","y",".">>

\* "Chatbot: Failed to reload rules: "
ReloadFailedPrefix == 
    <<"C","h","a","t","b","o","t",":"," ","F","a","i","l","e","d"," ","t","o"," ",
      "r","e","l","o","a","d"," ","r","u","l","e","s",":"," ">>

\* "Chatbot: Available intents:"
IntentsHeader == 
    <<"C","h","a","t","b","o","t",":"," ","A","v","a","i","l","a","b","l","e"," ",
      "i","n","t","e","n","t","s",":">>

\* "- "
IntentBullet == <<"-"," ">>

\* "user123"
DefaultUserId == <<"u","s","e","r","1","2","3">>

\* "User"
DefaultUserName == <<"U","s","e","r">>

(***************************************************************************)
(* Option<String>, Rule and Session.                                       *)
(***************************************************************************)
None == [some |-> FALSE]

Some(v) == [some |-> TRUE, value |-> v]

Rule(intent, patterns, responses) ==
    [intent |-> intent, patterns |-> patterns, responses |-> responses]

\* Session::new
Session_new(user_id, user_name) ==
    [user_id |-> user_id, user_name |-> user_name,
     last_intent |-> None, conversation_history |-> <<>>]

(***************************************************************************)
(* The rule file.  Its content is unreadable ("missing"), text that does   *)
(* not deserialize into Vec<Rule> ("malformed": `rules` are the records    *)
(* that parse before the first bad one), or a well-formed collection.      *)
(***************************************************************************)
MissingFile == [kind |-> "missing", rules |-> <<>>]

MalformedFile(prefix) == [kind |-> "malformed", rules |-> prefix]

WellFormedFile(rs) == [kind |-> "ok", rules |-> rs]

\* the Display text of the io::Error of an unreadable file:
\* "No such file or directory (os error 2)"
IoErrorText == 
    <<"N","o"," ","s","u","c","h"," ","f","i","l","e"," ","o","r"," ","d","i","r",
      "e","c","t","o","r","y"," ","(","o","s"," ","e","r","r","o","r"," ","2",")">>

\* the Display text of the serde_json::Error of a malformed file, without
\* its position: "missing field"
JsonErrorText == <<"m","i","s","s","i","n","g"," ","f","i","e","l","d">>

\* load_rules_from_json: Ok(rules) or Err(e); nothing but the result is produced
load_rules_from_json(f) ==
    IF f.kind = "missing" THEN [ok |-> FALSE, err |-> IoErrorText]
    ELSE IF f.kind = "malformed" THEN [ok |-> FALSE, err |-> JsonErrorText]
    ELSE [ok |-> TRUE, rules |-> f.rules]

\* reload_rules
reload_rules(f) == load_rules_from_json(f)

(***************************************************************************)
(* clean_input, match_rule, generate_response, list_intents.               *)
(***************************************************************************)
clean_input(input) == trim(to_lowercase(input))

\* the inner loop of match_rule: the patterns of one rule, from the j-th on
RECURSIVE pattern_matches_from(_, _, _)
pattern_matches_from(user_input, patterns, j) ==
    IF j > Len(patterns) THEN FALSE
    ELSE IF contains(user_input, to_lowercase(patterns[j])) THEN TRUE
    ELSE pattern_matches_from(user_input, patterns, j + 1)

\* the outer loop of match_rule: the rules from the i-th on
RECURSIVE match_rule_from(_, _, _)
match_rule_from(user_input, rs, i) ==
    IF i > Len(rs) THEN 0
    ELSE IF pattern_matches_from(user_input, rs[i].patterns, 1) THEN i
    ELSE match_rule_from(user_input, rs, i + 1)

\* a faulty match_rule, which returns the last rule that has a matching
\* pattern: what C3 is shown to detect
match_rule_last(user_input, rs) ==
    LET hits == {i \in 1..Len(rs) : pattern_matches_from(user_input, rs[i].patterns, 1)}
    IN  IF hits = {} THEN 0 ELSE CHOOSE i \in hits : \A k \in hits : k <= i

\* match_rule: the position of the rule returned (Some(&rules[i-1])), 0 for None
match_rule(user_input, rs) == match_rule_from(user_input, rs, 1)

Digit == <<"0","1","2","3","4","5","6","7","8","9">>

two_digits(n) == <<Digit[(n \div 10) + 1], Digit[(n % 10) + 1]>>

\* chrono's format("%I:%M %p"): 12-hour clock, zero-padded, AM or PM
format_time(t) ==
    LET h12 == IF t.hour % 12 = 0 THEN 12 ELSE t.hour % 12
    IN  two_digits(h12) \o <<":">> \o two_digits(t.minute) \o <<" ">>
          \o (IF t.hour < 12 THEN <<"A", "M">> ELSE <<"P", "M">>)

\* generate_response: the text returned, or the panic of responses[0] on an
\* empty Vec (index out of bounds)
generate_response(rule, s, t) ==
    IF Len(rule.responses) = 0
    THEN [panicked |-> TRUE, text |-> <<>>]
    ELSE [panicked |-> FALSE,
          text |-> replace(replace(rule.responses[1], NamePlaceholder, s.user_name),
                           TimePlaceholder, format_time(t))]

\* list_intents: the lines printed
list_intents(rs) ==
    <<IntentsHeader>> \o [i \in 1..Len(rs) |-> IntentBullet \o rs[i].intent]

(***************************************************************************)
(* Rule collections the rule file may hold while the chatbot runs.         *)
(***************************************************************************)
\* greet: "hello", "hi" -> "Hello, {name}! How can I assist you today?"
GreetRule ==
    Rule(<<"g","r","e","e","t">>, <<<<"h","e","l","l","o">>, <<"h","i">>>>,
         <<
    <<"H","e","l","l","o",","," ","{","n","a","m","e","}","!"," ","H","o","w"," ",
      "c","a","n"," ","I"," ","a","s","s","i","s","t"," ","y","o","u"," ","t","o",
      "d","a","y","?">>>>)

\* farewell: "bye", "goodbye" -> "Goodbye, {name}! Have a great day!"
FarewellRule ==
    Rule(<<"f","a","r","e","w","e","l","l">>, <<<<"b","y","e">>, <<"g","o","o","d","b","y","e">>>>,
         <<
    <<"G","o","o","d","b","y","e",","," ","{","n","a","m","e","}","!"," ","H","a",
      "v","e"," ","a"," ","g","r","e","a","t"," ","d","a","y","!">>>>)

\* time: "Time" -> "Hello, {name}! It's {time}." or "It is {time} now."
TimeRule ==
    Rule(<<"t","i","m","e">>, <<<<"T","i","m","e">>>>,
         <<
    <<"H","e","l","l","o",","," ","{","n","a","m","e","}","!"," ","I","t","'","s",
      " ","{","t","i","m","e","}",".">>,
           <<"I","t"," ","i","s"," ","{","t","i","m","e","}"," ","n","o","w",".">>>>)

\* silent: "hi" -> no response variant at all
SilentRule == Rule(<<"s","i","l","e","n","t">>, <<<<"h","i">>>>, <<>>)

StockRules == <<GreetRule, FarewellRule>>

ClockRules == <<TimeRule, GreetRule>>

SilentRules == <<FarewellRule, SilentRule, GreetRule>>

Collections == {<<>>, StockRules, ClockRules, SilentRules}

Files ==
    {MissingFile}
      \cup UNION {{MalformedFile(SubSeq(c, 1, k)) : k \in 0..(Len(c) - 1)} :
                    c \in Collections}
      \cup {WellFormedFile(c) : c \in Collections}

\* the lines read_line may return
\* "exit", "  EXIT ", "reload rules", "Reload Rules", "list intents", "hi",
\* "  Hello there ", "goodbye", "this is great", "what TIME is it",
\* "unknown command", each with its line feed; the empty line; end of input
Lines ==
    {<<"e","x","i","t","\n">>,
     <<" "," ","E","X","I","T"," ","\n">>,
     <<"r","e","l","o","a","d"," ","r","u","l","e","s","\n">>,
     <<"R","e","l","o","a","d"," ","R","u","l","e","s","\n">>,
     <<"l","i","s","t"," ","i","n","t","e","n","t","s","\n">>,
     <<"h","i","\n">>,
     <<" "," ","H","e","l","l","o"," ","t","h","e","r","e"," ","\n">>,
     <<"g","o","o","d","b","y","e","\n">>,
     <<"t","h","i","s"," ","i","s"," ","g","r","e","a","t","\n">>,
     <<"w","h","a","t"," ","T","I","M","E"," ","i","s"," ","i","t","\n">>,
     <<"u","n","k","n","o","w","n"," ","c","o","m","m","a","n","d","\n">>,
     <<"\n">>,
     <<>>}

\* the readings of Local::now()
Clock == {[hour |-> 15, minute |-> 7], [hour |-> 0, minute |-> 30]}

Midnight == [hour |-> 0, minute |-> 0]

\* "Welcome to Rust Chatbot! Type 'exit' to quit."
WelcomeLine == 
    <<"W","e","l","c","o","m","e"," ","t","o"," ","R","u","s","t"," ","C","h","a",
      "t","b","o","t","!"," ","T","y","p","e"," ","'","e","x","i","t","'"," ","t",
      "o"," ","q","u","i","t",".">>

(***************************************************************************)
(* The state.                                                              *)
(***************************************************************************)
VARIABLES
    file,           \* the content of rules_with_patterns.json
    rules,          \* main's rules: the active collection
    session,        \* main's session
    pc,             \* "loop", "exited", "panicked", "startup_error";
                    \* "call" and "ret" when one function is applied alone
    step,           \* the step that led here: "start", "exit", "reload",
                    \* "list", "turn", "edit_file", or the function applied
    input_text,     \* the trimmed line of the last iteration
    cleaned_input,  \* clean_input(input_text) of the last turn
    matched,        \* the position in rules of the last turn's rule, 0: None
    now,            \* the clock reading of the last generate_response
    output,         \* the lines the last step printed, or the value returned
    last_reload     \* how the latest 'reload rules' ended: "none", "ok", "failed"

vars ==
    <<file, rules, session, pc, step, input_text, cleaned_input, matched, now,
      output, last_reload>>

(***************************************************************************)
(* main.                                                                   *)
(***************************************************************************)
\* main up to the loop: the first load, Session::new, the welcome line;
\* a failed first load ends main with the error
Init ==
    /\ file \in Files
    /\ LET r == load_rules_from_json(file)
       IN  /\ rules = IF r.ok THEN r.rules ELSE <<>>
           /\ pc = IF r.ok THEN "loop" ELSE "startup_error"
           /\ output = IF r.ok THEN <<WelcomeLine>> ELSE <<>>
    /\ session = Session_new(DefaultUserId, DefaultUserName)
    /\ step = "start"
    /\ input_text = <<>>
    /\ cleaned_input = <<>>
    /\ matched = 0
    /\ now = Midnight
    /\ last_reload = "none"

\* the if / else-if chain of the loop: the branch a trimmed line takes
dispatch(text) ==
    IF eq_ignore_ascii_case(text, ExitCommand) THEN "exit"
    ELSE IF eq_ignore_ascii_case(text, ReloadCommand) THEN "reload"
    ELSE IF eq_ignore_ascii_case(text, ListCommand) THEN "list"
    ELSE "turn"

\* the branch each line of Lines takes, after the trim of line 67
Branch == [line \in Lines |-> dispatch(trim(line))]

\* 'exit': the loop is left
Exit(line) ==
    /\ pc = "loop"
    /\ Branch[line] = "exit"
    /\ input_text' = trim(line)
    /\ output' = <<GoodbyeLine>>
    /\ pc' = "exited"
    /\ step' = "exit"
    /\ cleaned_input' = <<>>
    /\ matched' = 0
    /\ UNCHANGED <<file, rules, session, now, last_reload>>

\* a faulty commit, which on a failed reload keeps what was parsed before the
\* error: what C1 is shown to detect
commit_reload_partial(r) == IF r.ok THEN r.rules ELSE file.rules

\* the collection main holds after reload_rules returned r
commit_reload(r) == IF r.ok THEN r.rules ELSE rules

\* 'reload rules'
ReloadCmd(line) ==
    /\ pc = "loop"
    /\ Branch[line] = "reload"
    /\ input_text' = trim(line)
    /\ LET r == reload_rules(file)
       IN  /\ rules' = commit_reload(r)
           /\ output' = IF r.ok THEN <<ReloadedLine>>
                                ELSE <<ReloadFailedPrefix \o r.err>>
           /\ last_reload' = IF r.ok THEN "ok" ELSE "failed"
    /\ step' = "reload"
    /\ cleaned_input' = <<>>
    /\ matched' = 0
    /\ UNCHANGED <<file, session, pc, now>>

\* 'list intents'
ListCmd(line) ==
    /\ pc = "loop"
    /\ Branch[line] = "list"
    /\ input_text' = trim(line)
    /\ output' = list_intents(rules)
    /\ step' = "list"
    /\ cleaned_input' = <<>>
    /\ matched' = 0
    /\ UNCHANGED <<file, rules, session, pc, now, last_reload>>

\* a faulty if-let, which clears last_intent when no rule matches: what C5
\* is shown to detect
respond_forgetting(m, t) ==
    IF m # 0
    THEN LET s == [session EXCEPT !.last_intent = Some(rules[m].intent)]
             g == generate_response(rules[m], s, t)
         IN  [session |-> s, panicked |-> g.panicked, response |-> g.text,
              clock |-> t]
    ELSE [session |-> [session EXCEPT !.last_intent = None], panicked |-> FALSE,
          response |-> FallbackMessage, clock |-> now]

\* a faulty if-let, which does not record the intent of the matched rule:
\* what C9 is shown to detect
respond_unrecorded(m, t) ==
    IF m # 0
    THEN LET g == generate_response(rules[m], session, t)
         IN  [session |-> session, panicked |-> g.panicked, response |-> g.text,
              clock |-> t]
    ELSE [session |-> session, panicked |-> FALSE, response |-> FallbackMessage,
          clock |-> now]

\* a faulty if-let, which appends the matched intent to conversation_history:
\* what C10 is shown to detect
respond_logging(m, t) ==
    IF m # 0
    THEN LET s == [session EXCEPT
                      !.last_intent = Some(rules[m].intent),
                      !.conversation_history = Append(@, rules[m].intent)]
             g == generate_response(rules[m], s, t)
         IN  [session |-> s, panicked |-> g.panicked, response |-> g.text,
              clock |-> t]
    ELSE [session |-> session, panicked |-> FALSE, response |-> FallbackMessage,
          clock |-> now]

\* the if-let of a turn, for the rule at position m (0: None) and the clock
\* reading t: last_intent is set before generate_response is called
respond(m, t) ==
    IF m # 0
    THEN LET s == [session EXCEPT !.last_intent = Some(rules[m].intent)]
             g == generate_response(rules[m], s, t)
         IN  [session |-> s, panicked |-> g.panicked, response |-> g.text,
              clock |-> t]
    ELSE [session |-> session, panicked |-> FALSE, response |-> FallbackMessage,
          clock |-> now]

\* any other line: one conversational turn
Turn(line, t) ==
    /\ pc = "loop"
    /\ Branch[line] = "turn"
    /\ input_text' = trim(line)
    /\ cleaned_input' = clean_input(input_text')
    /\ matched' = match_rule(cleaned_input', rules)
    /\ LET r == respond(matched', t)
       IN  /\ session' = r.session
           /\ now' = r.clock
           /\ pc' = IF r.panicked THEN "panicked" ELSE "loop"
           /\ output' = IF r.panicked THEN <<>> ELSE <<ChatbotPrefix \o r.response>>
    /\ step' = "turn"
    /\ UNCHANGED <<file, rules, last_reload>>

\* the rule file is rewritten, removed or damaged while the chatbot runs
EditFile(f) ==
    /\ pc = "loop"
    /\ f # file
    /\ file' = f
    /\ step' = "edit_file"
    /\ UNCHANGED <<rules, session, pc, input_text, cleaned_input, matched, now,
                   output, last_reload>>

Next ==
    \/ \E line \in Lines : Exit(line)
    \/ \E line \in Lines : ReloadCmd(line)
    \/ \E line \in Lines : ListCmd(line)
    \/ \E line \in Lines, t \in Clock : Turn(line, t)
    \/ \E f \in Files : EditFile(f)

Spec == Init /\ [][Next]_vars

(***************************************************************************)
(* clean_input applied alone, to every input of at most MaxLen characters. *)
(***************************************************************************)
CleanAlphabet == {"h", "H", "i", " ", "\t", "!"}

\* the values the variables a function does not touch are given
Idle ==
    /\ file = MissingFile
    /\ step = "start"
    /\ now = Midnight
    /\ last_reload = "none"

InitClean ==
    /\ Idle
    /\ input_text \in Strings(CleanAlphabet, MaxLen)
    /\ rules = <<>>
    /\ session = Session_new(DefaultUserId, DefaultUserName)
    /\ pc = "call"
    /\ cleaned_input = <<>>
    /\ matched = 0
    /\ output = <<>>

CallCleanInput ==
    /\ pc = "call"
    /\ cleaned_input' = clean_input(input_text)
    /\ pc' = "ret"
    /\ step' = "clean_input"
    /\ UNCHANGED <<file, rules, session, input_text, matched, now, output,
                   last_reload>>

SpecClean == InitClean /\ [][CallCleanInput]_vars

(***************************************************************************)
(* match_rule applied alone, as the tests apply it: to clean_input of      *)
(* every input of at most MaxLen characters and every collection of at     *)
(* most MaxRules rules of MatchPool.                                       *)
(***************************************************************************)
MatchAlphabet == {"t", "h", "i", "H", " "}

\* "Hi" or "it"
MixedRule ==
    Rule(<<"m","i","x","e","d">>, <<<<"H","i">>, <<"i","t">>>>,
         <<<<"H","e","l","l","o",","," ","{","n","a","m","e","}","!">>>>)

\* "h"
ShortRule == Rule(<<"s","h","o","r","t">>, <<<<"h">>>>, <<<<"H","m",".">>>>)

\* no pattern
QuietRule == Rule(<<"q","u","i","e","t">>, <<>>, <<<<".",".",".">>>>)

\* "i t" or "hi"
PhraseRule ==
    Rule(<<"p","h","r","a","s","e">>, <<<<"i"," ","t">>, <<"h","i">>>>,
         <<<<"{","t","i","m","e","}">>>>)

\* the empty pattern
AnyRule == Rule(<<"a","n","y">>, <<<<>>>>, <<>>)

MatchPool == {MixedRule, ShortRule, QuietRule, PhraseRule, AnyRule}

InitMatch ==
    /\ Idle
    /\ input_text \in Strings(MatchAlphabet, MaxLen)
    /\ rules \in SeqUpTo(MatchPool, MaxRules)
    /\ session = Session_new(DefaultUserId, DefaultUserName)
    /\ pc = "call"
    /\ cleaned_input = <<>>
    /\ matched = 0
    /\ output = <<>>

CallMatchRule ==
    /\ pc = "call"
    /\ cleaned_input' = clean_input(input_text)
    /\ matched' = match_rule(cleaned_input', rules)
    /\ pc' = "ret"
    /\ step' = "match_rule"
    /\ UNCHANGED <<file, rules, session, input_text, now, output, last_reload>>

SpecMatch == InitMatch /\ [][CallMatchRule]_vars

(***************************************************************************)
(* generate_response applied alone, as its test applies it: to a rule      *)
(* whose first template is put together from at most MaxFragments          *)
(* fragments, a session of any of RenderNames, and a clock reading.        *)
(***************************************************************************)
\* "{name}", "{time}", "{foo}", "It's ", "{ti", "me}"
Fragments ==
    {NamePlaceholder, TimePlaceholder,
     <<"{","f","o","o","}">>,
     <<"I","t","'","s"," ">>,
     <<"{","t","i">>,
     <<"m","e","}">>}

Templates == {Concat(fs) : fs \in SeqUpTo(Fragments, MaxFragments)}

\* a second variant, which responses[0] never selects
OtherVariant == <<"H","e","y"," ","{","n","a","m","e","}",","," ","{","t","i","m","e","}">>

RenderResponses ==
    {<<>>} \cup {<<tpl>> : tpl \in Templates}
           \cup {<<tpl, OtherVariant>> : tpl \in Templates}

\* "User", "Alice", "{time}" and the empty name
RenderNames == {DefaultUserName, <<"A","l","i","c","e">>, TimePlaceholder, <<>>}

InitRender ==
    /\ Idle
    /\ \E rsp \in RenderResponses : rules = <<Rule(<<"r","e","n","d","e","r">>, <<>>, rsp)>>
    /\ \E n \in RenderNames : session = Session_new(DefaultUserId, n)
    /\ pc = "call"
    /\ input_text = <<>>
    /\ cleaned_input = <<>>
    /\ matched = 1
    /\ output = <<>>

CallGenerateResponse(t) ==
    /\ pc = "call"
    /\ LET g == generate_response(rules[matched], session, t)
       IN  /\ pc' = IF g.panicked THEN "panicked" ELSE "ret"
           /\ output' = IF g.panicked THEN <<>> ELSE <<g.text>>
    /\ now' = t
    /\ step' = "generate_response"
    /\ UNCHANGED <<file, rules, session, input_text, cleaned_input, matched,
                   last_reload>>

SpecRender == InitRender /\ [][\E t \in Clock : CallGenerateResponse(t)]_vars

(***************************************************************************)
(* Notions the properties are stated with.                                 *)
(***************************************************************************)
\* p is a substring of s: s = pre \o p \o suf for some pre and suf
IsSubstring(p, s) ==
    \E a \in 0..Len(s) : \E b \in a..Len(s) : SubSeq(s, a + 1, b) = p

\* some pattern of the rule, lowercased, is a substring of the input
HasMatchingPattern(rule, inp) ==
    \E j \in 1..Len(rule.patterns) :
        IsSubstring(to_lowercase(rule.patterns[j]), inp)

\* the line a turn prints when it answers with the fallback message
FallbackLine == ChatbotPrefix \o FallbackMessage

\* s begins with p
HasPrefix(s, p) == Len(p) <= Len(s) /\ SubSeq(s, 1, Len(p)) = p

\* one pass over the template, left to right: each "{name}" gives the name,
\* each "{time}" gives the time, any other character gives itself
RECURSIVE Substituted(_, _, _)
Substituted(tpl, name, time) ==
    IF tpl = <<>> THEN <<>>
    ELSE IF HasPrefix(tpl, NamePlaceholder)
         THEN name \o Substituted(SubSeq(tpl, Len(NamePlaceholder) + 1, Len(tpl)),
                                  name, time)
    ELSE IF HasPrefix(tpl, TimePlaceholder)
         THEN time \o Substituted(SubSeq(tpl, Len(TimePlaceholder) + 1, Len(tpl)),
                                  name, time)
    ELSE <<Head(tpl)>> \o Substituted(Tail(tpl), name, time)

\* the pieces of s between the occurrences of sep
RECURSIVE SplitOn(_, _)
SplitOn(s, sep) ==
    LET occ == Occurrences(s, sep)
    IN  IF occ = {} THEN <<s>>
        ELSE <<SubSeq(s, 1, Min(occ) - 1)>>
               \o SplitOn(SubSeq(s, Min(occ) + Len(sep), Len(s)), sep)

\* the pieces put together again with sep between them
RECURSIVE JoinWith(_, _)
JoinWith(pieces, sep) ==
    IF Len(pieces) = 1 THEN pieces[1]
    ELSE pieces[1] \o sep \o JoinWith(Tail(pieces), sep)

(***************************************************************************)
(* The properties.                                                         *)
(***************************************************************************)

\* C1: a 'reload rules' that fails (the file is unreadable or malformed)
\* reports the error and leaves the active collection as it was; a reload
\* that succeeds makes the loaded collection, as a whole, the active one;
\* no other step changes the active collection, and every turn matches
\* against the collection that is active when it starts.
C1_ReloadIsAtomic ==
    [][/\ (step' = "reload" /\ file.kind # "ok") =>
             /\ rules' = rules
             /\ \E e \in {IoErrorText, JsonErrorText} :
                    output' = <<ReloadFailedPrefix \o e>>
       /\ (step' = "reload" /\ file.kind = "ok") =>
             /\ rules' = file.rules
             /\ output' = <<ReloadedLine>>
       /\ (step' # "reload") => rules' = rules
       /\ (step' = "turn") =>
             /\ matched' \in 0..Len(rules)
             /\ (matched' = 0) = (\A k \in 1..Len(rules) :
                                     ~HasMatchingPattern(rules[k], cleaned_input'))
             /\ (matched' # 0) => HasMatchingPattern(rules[matched'], cleaned_input')
      ]_vars

\* C1 witness: a turn matched a rule of the old collection after a reload
\* from a malformed file had failed, the file holding other rules
C1_Witness ==
    /\ step = "turn"
    /\ last_reload = "failed"
    /\ matched # 0
    /\ file.kind = "malformed"
    /\ file.rules # rules

\* C2: a turn whose input matches a rule with no response yields the
\* fallback message and the conversation goes on.
C2_EmptyResponsesFallBack ==
    (step = "turn" /\ matched # 0 /\ rules[matched].responses = <<>>) =>
        (pc = "loop" /\ output = <<FallbackLine>>)

\* C3: first match wins: no rule before the one match_rule returns has a
\* matching pattern, and of two rules that both have one, the later is
\* never the one returned.
C3_FirstMatchWins ==
    (step = "match_rule") =>
        /\ \A k \in 1..Len(rules) :
              (matched # 0 /\ k < matched) =>
                  ~HasMatchingPattern(rules[k], cleaned_input)
        /\ \A a, b \in 1..Len(rules) :
              (/\ a < b
               /\ HasMatchingPattern(rules[a], cleaned_input)
               /\ HasMatchingPattern(rules[b], cleaned_input)) =>
                  (matched # 0 /\ matched # b)

\* C3 witness: "hi" matches the one-letter pattern "h" of the first rule
\* and the longer pattern "hi" of the second, and the first is returned
C3_Witness ==
    /\ step = "match_rule"
    /\ rules = <<ShortRule, PhraseRule>>
    /\ cleaned_input = <<"h", "i">>
    /\ matched = 1

\* C4: match_rule returns None exactly when no rule has a pattern whose
\* lowercased form is a substring of the input, and otherwise a rule of the
\* collection that has one.
C4_MatchIffSubstring ==
    (step = "match_rule") =>
        /\ matched \in 0..Len(rules)
        /\ (matched = 0) = (\A k \in 1..Len(rules) :
                               ~HasMatchingPattern(rules[k], cleaned_input))
        /\ (matched # 0) => HasMatchingPattern(rules[matched], cleaned_input)

\* C4 witness: the pattern "hi" matches inside the word "thi"
C4_Witness ==
    /\ step = "match_rule"
    /\ rules = <<PhraseRule>>
    /\ cleaned_input = <<"t", "h", "i">>
    /\ matched = 1

\* C5: with the empty collection active, a turn yields the fallback
\* message, the loop goes on and last_intent is left as it was.
C5_EmptyCollectionFallsBack ==
    [][(rules = <<>> /\ step' = "turn") =>
          /\ matched' = 0
          /\ output' = <<FallbackLine>>
          /\ pc' = "loop"
          /\ session'.last_intent = session.last_intent
      ]_vars

\* C5 witness: the empty input, turned against the empty collection, after
\* an earlier turn had recorded an intent
C5_Witness ==
    /\ step = "turn"
    /\ rules = <<>>
    /\ cleaned_input = <<>>
    /\ session.last_intent # None
    /\ output = <<FallbackLine>>
    /\ pc = "loop"

\* C6: clean_input is idempotent, and its result holds no uppercase letter
\* and neither starts nor ends with whitespace; "  Hello World!  " becomes
\* "hello world!".
C6_CleanInputIdempotent ==
    /\ (step = "clean_input") =>
          /\ clean_input(cleaned_input) = cleaned_input
          /\ \A i \in 1..Len(cleaned_input) :
                \A u \in 1..Len(UpperCase) : cleaned_input[i] # UpperCase[u]
          /\ (cleaned_input # <<>>) =>
                /\ cleaned_input[1] \notin WhiteSpace
                /\ cleaned_input[Len(cleaned_input)] \notin WhiteSpace
    /\ clean_input(<<" "," ","H","e","l","l","o"," ","W","o","r","l","d","!"," "," ">>)
          = <<"h","e","l","l","o"," ","w","o","r","l","d","!">>

\* C6 witness: " H<tab>" is cleaned to "h"
C6_Witness ==
    /\ step = "clean_input"
    /\ input_text = <<" ", "H", "\t">>
    /\ cleaned_input = <<"h">>

\* C7: generate_response returns responses[0] with every "{name}" replaced
\* by the user name and every "{time}" by the formatted time, all other
\* text of the template unchanged.
C7_RendersFirstTemplate ==
    (step = "generate_response" /\ pc = "ret") =>
        output = <<Substituted(rules[matched].responses[1], session.user_name,
                               format_time(now))>>

\* C8: the user name stands verbatim in the output wherever "{name}" stood
\* in the template: the output is the pieces of the template between the
\* "{name}"s, each with its "{time}"s replaced, joined by the user name.
C8_NameIsNotRewritten ==
    (step = "generate_response" /\ pc = "ret") =>
        LET pieces == SplitOn(rules[matched].responses[1], NamePlaceholder)
            timed == [i \in 1..Len(pieces) |->
                         replace(pieces[i], TimePlaceholder, format_time(now))]
        IN  output = <<JoinWith(timed, session.user_name)>>

\* C9: last_intent is None at the start, a turn that matches a rule sets it
\* to that rule's intent, and every other step leaves it as it was.
C9_LastIntentTracksLastMatch ==
    /\ (step = "start") => (session.last_intent = None)
    /\ [][/\ (step' = "turn" /\ matched' # 0) =>
                session'.last_intent = Some(rules[matched'].intent)
          /\ ~(step' = "turn" /\ matched' # 0) =>
                session'.last_intent = session.last_intent
         ]_vars

\* C9 witness: a turn that matched nothing, after a reload, left the intent
\* recorded by an earlier turn
C9_Witness ==
    /\ step = "turn"
    /\ matched = 0
    /\ last_reload # "none"
    /\ session.last_intent = Some(FarewellRule.intent)

\* C10: user_id and user_name are the ones given to Session::new and
\* conversation_history is empty, whatever has happened.
C10_IdentityAndHistoryFixed ==
    /\ session.user_id = DefaultUserId
    /\ session.user_name = DefaultUserName
    /\ session.conversation_history = <<>>

\* C10 witness: a turn matched a rule after a reload had succeeded
C10_Witness ==
    /\ step = "turn"
    /\ matched # 0
    /\ session.last_intent # None
    /\ last_reload = "ok"

====
